---- MODULE Spec2Model ----
(***************************************************************************)
(* Model of lichess-bot's src/__init__.py: the control stream consumer     *)
(* (watch_control_stream), the Dispatcher loop (start) and the Game Worker *)
(* (play_game) with the backoff decorator that wraps both stream readers.  *)
(*                                                                         *)
(* Spec           : the whole system, Game Workers seen through their exit *)
(*                  paths                                                  *)
(* LiveSpec       : Spec with the fairness the process scheduling gives    *)
(* DispatcherSpec : the Dispatcher against every sequence of events        *)
(* GameSpec       : one Game Worker with its message loop in detail        *)
(***************************************************************************)
EXTENDS Integers, Sequences, FiniteSets, TLC

\* ---------------------------------------------------------------- bounds
MaxWorkers    == 2   \* pool processes available to Game Workers
MaxTries      == 1   \* retries the backoff decorator gets before max_time is over
MaxQueue      == 1   \* control-queue length explored
MaxChallenges == 2   \* supported challenge events the server delivers
MaxBusy       == 2   \* range of busy_processes explored: -MaxBusy .. MaxBusy
MaxMoves      == 3   \* moves of the observed game
MaxAborts     == 2   \* li.abort calls of the observed game between two gameState lines

\* ------------------------------------------------------------ vocabulary
\* configured values of challenge_config["concurrency"] that are explored
Concurrencies == {1, 2}
SortPolicies  == {"best", "first"}

\* challenge payloads: what model.Challenge(event["challenge"]) derives from them
ChallengePayloads ==
    { [id |-> "a", score |-> 5, supported |-> TRUE],
      [id |-> "b", score |-> 9, supported |-> TRUE],
      [id |-> "u", score |-> 5, supported |-> FALSE] }

\* exception classes the code distinguishes
HTTPErrors  == {"HTTP404", "HTTP4xx", "HTTP5xx"}
ConnErrors  == {"Conn"}     \* RemoteDisconnected, ChunkedEncodingError, ConnectionError, ProtocolError
OtherErrors == {"Other"}    \* any other exception (TypeError, IndexError, engine failure ...)
Exceptions  == HTTPErrors \cup ConnErrors \cup OtherErrors

VARIABLES
    terminated,        \* module-level flag set by signal_handler
    max_games,         \* challenge_config.get("concurrency", 1)
    sort_by,           \* challenge_config.get("sort_by", "best")
    challenge_queue,   \* sequence of [id, score, n]; n = arrival number of the entry
    control_queue,     \* sequence of events (records with a type field)
    busy_processes,
    queued_processes,
    disp,              \* position of start(): "top", "get", "stopped", "raised"
    calls,             \* the accept/decline calls of this loop iteration, [op, res]
    control_stream,    \* [pc, tries] of the watch_control_stream process
    worker,            \* [1..MaxWorkers -> [pc, tries]], the pool's tasks
    nchal,             \* challenges appended to the challenge queue so far
    \* the observed Game Worker (GameSpec)
    game,              \* model.Game: [is_white, white_starts, moves]; moves = state["moves"].split()
    board,             \* chess.Board, as the sequence of the moves pushed on it
    srv_moves,         \* the game's move list on the server
    last,              \* the last stream message handled and the calls it made
    sent,              \* local_game_done events this task has enqueued
    attempts,          \* calls of play_game the decorator has made for this task
    errs,              \* exceptions this task has met: "none", "conn" (only connection errors), "mixed"
    abort_due,         \* model.Game: the auto-abort deadline has passed
    aborts             \* li.abort calls since the last gameState line or snapshot

dvars == <<terminated, max_games, sort_by, challenge_queue, control_queue,
           busy_processes, queued_processes, disp, calls, control_stream,
           nchal>>
gvars == <<game, board, srv_moves, last, sent, attempts, errs, abort_due, aborts>>
vars  == <<dvars, worker, gvars>>

\* ------------------------------------------------------------- helpers
Last(s)  == s[Len(s)]
Front(s) == SubSeq(s, 1, Len(s) - 1)
Count(s, P(_)) == Cardinality({i \in 1..Len(s) : P(s[i])})

Event(t)        == [type |-> t]
ChallengeEvent(c) == [type |-> "challenge", challenge |-> c]

\* line 42-43: HTTPError with a status below 500
is_final(exception) == exception \in {"HTTP404", "HTTP4xx"}

\* backoff.on_exception(backoff.expo, BaseException, max_time=600, giveup=is_final):
\* an exception is retried unless giveup holds or the elapsed time is over max_time
\* (in_time: the clock reading, an input).
BackoffRetries(exception, tries, in_time) ==
    /\ ~is_final(exception)
    /\ in_time
    /\ tries < MaxTries

\* ------------------------------------------------- the challenge queue
\* a sort that is not stable: x goes in front of the elements with its own key
SortInsertUnstable(s, x) ==
    LET p == Cardinality({i \in 1..Len(s) : -s[i].score < -x.score})
    IN  SubSeq(s, 1, p) \o <<x>> \o SubSeq(s, p + 1, Len(s))

\* list_c.sort(key=lambda c: -c.score()): Python's sort is stable.  Insert x
\* behind every element whose key is not greater than its own.
SortInsert(s, x) ==
    LET p == Cardinality({i \in 1..Len(s) : -s[i].score <= -x.score})
    IN  SubSeq(s, 1, p) \o <<x>> \o SubSeq(s, p + 1, Len(s))

RECURSIVE SortByScore(_)
SortByScore(q) ==
    IF q = <<>> THEN <<>> ELSE SortInsert(SortByScore(Front(q)), Last(q))

\* lines 90-94: append, and re-sort when sort_by is "best"
AppendChallenge(q, chlng) ==
    LET appended == Append(q, chlng)
    IN  IF sort_by = "best" THEN SortByScore(appended) ELSE appended

\* lines 111-122: the drain pass.  outs[i] is the result of the i-th
\* li.accept_challenge call of this pass.
AcceptResults == {"ok", "HTTP404", "HTTP4xx", "HTTP5xx"}

\* a drain pass that counts a missing challenge as accepted
RECURSIVE DrainCountsMissing(_, _, _, _, _)
DrainCountsMissing(q, queued, busy, outs, log) ==
    IF (queued + busy) < max_games /\ q # <<>>
    THEN LET r    == outs[Len(log) + 1]
             call == [op |-> "accept", res |-> r]
         IN
         CASE r \in {"ok", "HTTP404"} ->
                   DrainCountsMissing(Tail(q), queued + 1, busy, outs, Append(log, call))
           [] OTHER         -> [q |-> Tail(q), queued |-> queued,
                                log |-> Append(log, call), raised |-> TRUE]
    ELSE [q |-> q, queued |-> queued, log |-> log, raised |-> FALSE]

\* a drain pass that admits one game more than max_games
RECURSIVE DrainOverAdmits(_, _, _, _, _)
DrainOverAdmits(q, queued, busy, outs, log) ==
    IF (queued + busy) <= max_games /\ q # <<>>
    THEN LET r    == outs[Len(log) + 1]
             call == [op |-> "accept", res |-> r]
         IN
         CASE r = "ok"      -> DrainOverAdmits(Tail(q), queued + 1, busy, outs, Append(log, call))
           [] r = "HTTP404" -> DrainOverAdmits(Tail(q), queued, busy, outs, Append(log, call))
           [] OTHER         -> [q |-> Tail(q), queued |-> queued,
                                log |-> Append(log, call), raised |-> TRUE]
    ELSE [q |-> q, queued |-> queued, log |-> log, raised |-> FALSE]

RECURSIVE Drain(_, _, _, _, _)
Drain(q, queued, busy, outs, log) ==
    IF (queued + busy) < max_games /\ q # <<>>
    THEN LET r    == outs[Len(log) + 1]
             call == [op |-> "accept", res |-> r]
         IN
         CASE r = "ok"      -> Drain(Tail(q), queued + 1, busy, outs, Append(log, call))
           [] r = "HTTP404" -> Drain(Tail(q), queued, busy, outs, Append(log, call))
           [] OTHER         -> [q |-> Tail(q), queued |-> queued,
                                log |-> Append(log, call), raised |-> TRUE]
    ELSE [q |-> q, queued |-> queued, log |-> log, raised |-> FALSE]

\* --------------------------------------------------------------- Init
NoGame == [is_white |-> TRUE, white_starts |-> TRUE, moves |-> <<>>]
NoLast == [type |-> "none"]
IdleWorker == [pc |-> "idle", tries |-> 0]

Init ==
    /\ terminated = FALSE
    /\ max_games \in Concurrencies
    /\ sort_by \in SortPolicies
    /\ challenge_queue = <<>>
    /\ control_queue = <<>>
    /\ busy_processes = 0
    /\ queued_processes = 0
    /\ disp = "top"
    /\ calls = <<>>
    /\ control_stream = [pc |-> "open", tries |-> 0]
    /\ worker = [w \in 1..MaxWorkers |-> IdleWorker]
    /\ nchal = 0
    /\ game = NoGame
    /\ board = <<>>
    /\ srv_moves = <<>>
    /\ last = NoLast
    /\ sent = 0
    /\ attempts = 0
    /\ errs = "none"
    /\ abort_due = FALSE
    /\ aborts = 0

\* ------------------------------------------------------- signal_handler
\* lines 29-32
Sigint ==
    /\ terminated = FALSE
    /\ terminated' = TRUE
    /\ UNCHANGED <<max_games, sort_by, challenge_queue, control_queue,
                   busy_processes, queued_processes, disp, calls, control_stream,
                   nchal, worker, gvars>>

\* ---------------------------------------------------------- Dispatcher
\* lines 123-125: control_stream.terminate(); control_stream.join()
Shutdown(cs) ==
    IF cs.pc \in {"open", "read"} THEN [cs EXCEPT !.pc = "killed"] ELSE cs

\* line 79, leaving the with statement: what LoggingPool.__exit__ does to the
\* tasks of the pool.  In-flight Game Workers are left to end by themselves.
PoolExit(ws) == ws

\* a loop test that does not look at the flag
LoopTestDeaf ==
    /\ disp = "top"
    /\ disp' = "get"
    /\ calls' = <<>>
    /\ UNCHANGED <<terminated, max_games, sort_by, challenge_queue, control_queue,
                   busy_processes, queued_processes, nchal, control_stream, worker,
                   gvars>>

\* line 80: while not terminated
LoopTest ==
    /\ disp = "top"
    /\ IF terminated
       THEN /\ disp' = "stopped"
            /\ control_stream' = Shutdown(control_stream)
            /\ worker' = PoolExit(worker)
       ELSE /\ disp' = "get"
            /\ UNCHANGED <<control_stream, worker>>
    /\ calls' = <<>>
    /\ UNCHANGED <<terminated, max_games, sort_by, challenge_queue, control_queue,
                   busy_processes, queued_processes, nchal, gvars>>

\* line 81: event = control_queue.get()
Receives(t) ==
    /\ disp = "get"
    /\ control_queue # <<>>
    /\ Head(control_queue).type = t

\* lines 111-122 after the event's own branch left the queue q, the counters
\* queued and busy, and the results decl of its own server calls
AfterEvent(q, queued, busy, decl) ==
    \E k \in 0..Len(q) : \E outs \in [1..k -> AcceptResults] :
        LET d == Drain(q, queued, busy, outs \o <<"ok">>, <<>>) IN
        /\ Len(d.log) = k              \* the pass made exactly these calls
        /\ challenge_queue' = d.q
        /\ queued_processes' = d.queued
        /\ busy_processes' = busy
        /\ calls' = decl \o d.log
        /\ disp' = IF d.raised THEN "raised" ELSE "top"

\* lines 82-83
HandleTerminated ==
    /\ Receives("terminated")
    /\ control_queue' = Tail(control_queue)
    /\ disp' = "stopped"
    /\ control_stream' = Shutdown(control_stream)
    /\ worker' = PoolExit(worker)
    /\ UNCHANGED <<terminated, max_games, sort_by, challenge_queue, busy_processes,
                   queued_processes, calls, nchal, gvars>>

\* lines 84-86, then the drain pass
HandleLocalGameDone ==
    /\ Receives("local_game_done")
    /\ control_queue' = Tail(control_queue)
    /\ AfterEvent(challenge_queue, queued_processes, busy_processes - 1, <<>>)
    /\ UNCHANGED <<terminated, max_games, sort_by, control_stream, nchal, worker, gvars>>

\* lines 87-101, then the drain pass
DeclineResults == {"ok", "HTTP404", "HTTP4xx"}

HandleChallenge ==
    /\ Receives("challenge")
    /\ control_queue' = Tail(control_queue)
    /\ LET chlng == Head(control_queue).challenge IN
       IF chlng.supported
       THEN AfterEvent(AppendChallenge(challenge_queue,
                           [id |-> chlng.id, score |-> chlng.score, n |-> nchal + 1]),
                       queued_processes, busy_processes, <<>>)
       ELSE \E r \in DeclineResults :
               IF r \in {"ok", "HTTP404"}
               THEN AfterEvent(challenge_queue, queued_processes, busy_processes,
                               <<[op |-> "decline", res |-> r]>>)
               ELSE /\ disp' = "raised"
                    /\ calls' = <<[op |-> "decline", res |-> r]>>
                    /\ UNCHANGED <<challenge_queue, queued_processes, busy_processes>>
    /\ nchal' = IF Head(control_queue).challenge.supported THEN nchal + 1 ELSE nchal
    /\ UNCHANGED <<terminated, max_games, sort_by, control_stream, worker, gvars>>

\* the pool process that takes the next task
FreeSlots == {w \in 1..MaxWorkers : worker[w].pc \in {"idle", "returned", "raised"}}
NextSlot  == CHOOSE w \in FreeSlots : \A v \in FreeSlots : w <= v

\* a gameStart branch that decrements without looking
QueuedAfterStartUnguarded(queued) == queued - 1

\* lines 103-106: queued_processes after a gameStart event
QueuedAfterStart(queued) == IF queued <= 0 THEN queued ELSE queued - 1

\* lines 102-110, then the drain pass
HandleGameStart ==
    /\ Receives("gameStart")
    /\ FreeSlots # {}
    /\ control_queue' = Tail(control_queue)
    /\ worker' = [worker EXCEPT ![NextSlot] = [IdleWorker EXCEPT !.pc = "open"]]
    /\ AfterEvent(challenge_queue, QueuedAfterStart(queued_processes),
                  busy_processes + 1, <<>>)
    /\ UNCHANGED <<terminated, max_games, sort_by, control_stream, nchal, gvars>>

\* any other event type (ping): no branch matches, the drain pass runs
HandlePing ==
    /\ Receives("ping")
    /\ control_queue' = Tail(control_queue)
    /\ AfterEvent(challenge_queue, queued_processes, busy_processes, <<>>)
    /\ UNCHANGED <<terminated, max_games, sort_by, control_stream, nchal, worker, gvars>>

\* ------------------------------------------------ watch_control_stream
\* the decorator of line 52 around one call that ended with exception e
StreamBackoff(cs, e, in_time) ==
    IF BackoffRetries(e, cs.tries, in_time)
    THEN [pc |-> "open", tries |-> cs.tries + 1]
    ELSE [cs EXCEPT !.pc = "raised"]

Put(ev) ==
    /\ Len(control_queue) < MaxQueue
    /\ control_queue' = Append(control_queue, ev)

\* line 54: response = li.get_event_stream()
StreamOpen ==
    /\ control_stream.pc = "open"
    /\ \E r \in {"ok", "HTTP4xx", "HTTP5xx", "Conn"}, in_time \in BOOLEAN :
          control_stream' = IF r = "ok" THEN [control_stream EXCEPT !.pc = "read"]
                            ELSE StreamBackoff(control_stream, r, in_time)
    /\ UNCHANGED <<terminated, max_games, sort_by, challenge_queue, control_queue,
                   busy_processes, queued_processes, disp, calls, nchal,
                   worker, gvars>>

\* lines 56-59: a challenge line
ChallengesSent == nchal + Count(control_queue,
                      LAMBDA ev : ev.type = "challenge" /\ ev.challenge.supported)

StreamChallenge ==
    /\ control_stream.pc = "read"
    /\ \E c \in ChallengePayloads :
          /\ c.supported => ChallengesSent < MaxChallenges
          /\ Put(ChallengeEvent(c))
    /\ UNCHANGED <<terminated, max_games, sort_by, challenge_queue, busy_processes,
                   queued_processes, disp, calls, control_stream, nchal, worker, gvars>>

\* lines 56-59: a gameStart line: a game an accepted challenge created, or one
\* that started otherwise
TasksAlive == Cardinality({w \in 1..MaxWorkers : worker[w].pc \in {"open", "play"}})
                + Count(control_queue, LAMBDA ev : ev.type = "gameStart")

StreamGameStart ==
    /\ control_stream.pc = "read"
    /\ TasksAlive < MaxWorkers
    /\ busy_processes + Count(control_queue, LAMBDA ev : ev.type = "gameStart") < MaxBusy
    /\ Put(Event("gameStart"))
    /\ UNCHANGED <<terminated, max_games, sort_by, challenge_queue, busy_processes,
                   queued_processes, disp, calls, control_stream, nchal, worker, gvars>>

\* lines 60-61: a blank keep-alive line
StreamPing ==
    /\ control_stream.pc = "read"
    /\ Put(Event("ping"))
    /\ UNCHANGED <<terminated, max_games, sort_by, challenge_queue, busy_processes,
                   queued_processes, disp, calls, control_stream, nchal,
                   worker, gvars>>

\* lines 62-65: a connection error while reading lines
StreamConnError ==
    /\ control_stream.pc = "read"
    /\ Put(Event("terminated"))
    /\ control_stream' = [control_stream EXCEPT !.pc = "returned"]
    /\ UNCHANGED <<terminated, max_games, sort_by, challenge_queue, busy_processes,
                   queued_processes, disp, calls, nchal, worker, gvars>>

\* line 56: iter_lines() is exhausted, the function returns
StreamEnd ==
    /\ control_stream.pc = "read"
    /\ control_stream' = [control_stream EXCEPT !.pc = "returned"]
    /\ UNCHANGED <<terminated, max_games, sort_by, challenge_queue, control_queue,
                   busy_processes, queued_processes, disp, calls, nchal,
                   worker, gvars>>

\* ------------------------------------------------------------ play_game
\* the decorator of line 127 around one call of play_game that raised e
WorkerBackoff(wk, e, in_time) ==
    IF BackoffRetries(e, wk.tries, in_time)
    THEN [pc |-> "open", tries |-> wk.tries + 1]
    ELSE [pc |-> "raised", tries |-> 0]

\* lines 129-136, before the try statement: r is "ok" or the exception raised
\* by get_game_stream, next(lines), model.Game, setup_board or engine_factory
OpenResults == {"ok", "HTTP4xx", "HTTP5xx", "Conn", "Other"}

Opened(wk, r, in_time) ==
    IF r = "ok" THEN [wk EXCEPT !.pc = "play"] ELSE WorkerBackoff(wk, r, in_time)

\* lines 163-174: what leaves the try statement when its body raised e
\* ("none": the stream ended).  ongoing is the result of li.get_ongoing_games():
\* the game is listed ("ongoing"), is not ("over"), or the call raised.
OngoingResults == {"over", "ongoing", "HTTP4xx", "Conn"}

Handled(e, ongoing) ==
    CASE e = "none"      -> "none"
      [] e \in ConnErrors -> "none"
      [] e \in HTTPErrors ->
            (CASE ongoing = "over"    -> "none"
               [] ongoing = "ongoing" -> "Other"   \* line 171: str + int, TypeError
               [] OTHER               -> ongoing)
      [] OTHER           -> e

\* everything that can leave the try statement
LeavesTry == {Handled(e, ongoing) : e \in {"none"} \cup Exceptions,
                                    ongoing \in OngoingResults}

\* a finally clause that reports a failed game as the end of the client
FinallyTellsFailure(w, out, stop_ok, in_time) ==
    LET raised == IF stop_ok THEN out ELSE "Other"
    IN  /\ IF stop_ok
           THEN Put(Event(IF out = "none" THEN "local_game_done" ELSE "terminated"))
           ELSE UNCHANGED control_queue
        /\ worker' = [worker EXCEPT ![w] =
                        IF raised = "none" THEN [pc |-> "returned", tries |-> 0]
                        ELSE [pc |-> "raised", tries |-> 0]]

\* lines 175-180 and the return or raise: engine.stop(), the completion report
\* unless engine.stop() raised, then the decorator on what propagates.
\* out: what left the try statement ("none": nothing is propagating).
Finally(w, out, stop_ok, in_time) ==
    LET raised == IF stop_ok THEN out ELSE "Other"
    IN  /\ IF stop_ok THEN Put(Event("local_game_done"))
                      ELSE UNCHANGED control_queue
        /\ worker' = [worker EXCEPT ![w] =
                        IF raised = "none" THEN [pc |-> "returned", tries |-> 0]
                        ELSE WorkerBackoff(worker[w], raised, in_time)]

WorkerOpen(w) ==
    /\ worker[w].pc = "open"
    /\ \E r \in OpenResults, in_time \in BOOLEAN :
          worker' = [worker EXCEPT ![w] = Opened(worker[w], r, in_time)]
    /\ UNCHANGED <<dvars, gvars>>

\* the clock readings explored for a task that has reported: a further attempt
\* reports again, and busy_processes is explored down to -MaxBusy
InTime == IF busy_processes - Count(control_queue,
                                    LAMBDA ev : ev.type = "local_game_done") > -MaxBusy
          THEN BOOLEAN ELSE {FALSE}

\* the try statement ends: its body raised or the stream ended
WorkerLeave(w) ==
    /\ worker[w].pc = "play"
    /\ \E out \in LeavesTry, stop_ok \in BOOLEAN, in_time \in InTime :
          Finally(w, out, stop_ok, in_time)
    /\ UNCHANGED <<terminated, max_games, sort_by, challenge_queue, busy_processes,
                   queued_processes, disp, calls, control_stream, nchal, gvars>>

\* ------------------------------------------ the control queue's producers
\* every event a producer can put on the control queue (control_queue.put_nowait,
\* lines 59, 61, 65 and 180), whatever the producer
Feed ==
    /\ \E ev \in {Event("gameStart"), Event("local_game_done"), Event("ping"),
                  Event("terminated")} \cup {ChallengeEvent(c) : c \in ChallengePayloads} :
          /\ (ev.type = "challenge" /\ ev.challenge.supported)
                => ChallengesSent < MaxChallenges
          /\ ev.type = "gameStart" =>
                /\ TasksAlive < MaxWorkers
                /\ busy_processes
                     + Count(control_queue, LAMBDA x : x.type = "gameStart") < MaxBusy
          /\ ev.type = "local_game_done" => TRUE \in InTime
          /\ Put(ev)
    /\ UNCHANGED <<terminated, max_games, sort_by, challenge_queue, busy_processes,
                   queued_processes, disp, calls, control_stream, nchal, worker, gvars>>

\* ------------------------------------------------------------- the system
Dispatcher == \/ LoopTest
              \/ HandleTerminated
              \/ HandleLocalGameDone
              \/ HandleChallenge
              \/ HandleGameStart
              \/ HandlePing

ControlStream == \/ StreamOpen
                 \/ StreamChallenge
                 \/ StreamGameStart
                 \/ StreamPing
                 \/ StreamConnError
                 \/ StreamEnd

Worker(w) == WorkerOpen(w) \/ WorkerLeave(w)

Next == \/ Sigint
        \/ Dispatcher
        \/ ControlStream
        \/ \E w \in 1..MaxWorkers : Worker(w)

Spec == Init /\ [][Next]_vars

\* the scheduling: the Dispatcher runs while an event waits, every pool task
\* runs and every game stream ends, the event stream is opened and carries
\* keep-alive lines, and the server starts the game of an accepted challenge
LiveSpec ==
    /\ Spec
    /\ WF_vars(Dispatcher)
    /\ \A w \in 1..MaxWorkers : WF_vars(Worker(w))
    /\ WF_vars(StreamOpen)
    /\ WF_vars(StreamPing)
    /\ SF_vars(queued_processes > 0 /\ StreamGameStart)

\* the Dispatcher against every sequence of control events
DispatcherNext == \/ Sigint
                  \/ Dispatcher
                  \/ Feed

DispatcherSpec == Init /\ [][DispatcherNext]_vars

\* ------------------------------------------- play_game, message by message
\* the moves of the model: "mate" ends the game (board.is_game_over())
Moves == {"move", "mate"}
IsGameOver(b) == b # <<>> /\ Last(b) = "mate"

\* lines 213-216
update_board(b, move) == Append(b, move)

\* lines 200-204: replay the recorded moves
RECURSIVE setup_board(_)
setup_board(moves) ==
    IF moves = <<>> THEN <<>>
    ELSE update_board(setup_board(Front(moves)), Last(moves))

\* a turn test that forgets who starts
is_white_to_move_even(g, moves) == Len(moves) % 2 = 0

\* lines 207-208
is_white_to_move(g, moves) == Len(moves) % 2 = (IF g.white_starts THEN 0 ELSE 1)

\* lines 210-211
is_engine_move(g, moves) == g.is_white = is_white_to_move(g, moves)

\* engine.move(...) then li.make_move(...), lines 153-157 and 187-188
EngineResults == {"ok", "Other"}
MoveResults   == {"ok", "HTTP4xx", "Conn"}

MoveRequest(eng, mk) ==
    [exc       |-> IF eng # "ok" THEN eng ELSE IF mk # "ok" THEN mk ELSE "none",
     engine    |-> 1,
     engine_ok |-> eng = "ok",
     submit    |-> IF eng = "ok" THEN 1 ELSE 0]
NoRequest(exc) == [exc |-> exc, engine |-> 0, engine_ok |-> FALSE, submit |-> 0]

\* model.Game's auto-abort deadline: abort_in(seconds) sets a new deadline,
\* should_abort_now() tells that the deadline has passed
abort_in(due) == FALSE
should_abort_now(due) == due

\* li.abort(game.id), line 162
AbortResults == {"ok", "HTTP4xx", "Conn"}

Seen(e) ==
    IF e \in ConnErrors THEN (IF errs = "mixed" THEN "mixed" ELSE "conn") ELSE "mixed"

\* the try statement is left with exc raised in its body ("none": stream end)
GameExit(exc, ongoing, stop_ok, in_time) ==
    /\ Finally(1, Handled(exc, ongoing), stop_ok, in_time)
    /\ sent' = IF stop_ok THEN sent + 1 ELSE sent
    /\ errs' = IF ~stop_ok \/ Handled(exc, ongoing) # "none" THEN "mixed"
               ELSE IF exc = "none" THEN errs ELSE Seen(exc)

\* the try body goes on (req.exc = "none") or is left
GameGoesOn(req) ==
    IF req.exc = "none"
    THEN UNCHANGED <<worker, control_queue, sent, errs>>
    ELSE \E ongoing \in OngoingResults, stop_ok \in BOOLEAN, in_time \in BOOLEAN :
            GameExit(req.exc, ongoing, stop_ok, in_time)

\* lines 129-141: open the stream, read the snapshot, build Game, Board and
\* engine, then play_first_move inside the try statement
GameOpen ==
    /\ worker[1].pc = "open"
    /\ attempts' = attempts + 1
    /\ \E r \in OpenResults :
          IF r # "ok"
          THEN /\ \E in_time \in BOOLEAN :
                     worker' = [worker EXCEPT ![1] = Opened(worker[1], r, in_time)]
               /\ errs' = Seen(r)
               /\ UNCHANGED <<control_queue, game, board, last, sent, abort_due, aborts>>
          ELSE LET g == [game EXCEPT !.moves = srv_moves] IN
               /\ game' = g
               /\ abort_due' = FALSE      \* line 133: Game(..., abort_time)
               /\ aborts' = 0
               /\ board' = setup_board(g.moves)
               /\ \E req \in IF is_engine_move(g, g.moves)
                              THEN {MoveRequest(eng, mk) : eng \in EngineResults,
                                                           mk \in MoveResults}
                              ELSE {NoRequest("none")} :
                         /\ last' = [type |-> "first", moves |-> g.moves, pushed |-> FALSE,
                                     over |-> IsGameOver(setup_board(g.moves)), req |-> req]
                         /\ IF req.exc = "none"
                            THEN /\ worker' = [worker EXCEPT ![1] = Opened(worker[1], "ok", TRUE)]
                                 /\ UNCHANGED <<control_queue, sent, errs>>
                            ELSE GameGoesOn(req)
    /\ srv_moves' = srv_moves
    /\ UNCHANGED <<terminated, max_games, sort_by, challenge_queue, busy_processes,
                   queued_processes, disp, calls, control_stream, nchal>>

\* lines 148-158: a gameState line.  fresh: the line reports a new move (else it
\* repeats the move list: a draw offer, a status change).  push_ok: whether
\* board.push returns for a move that does not continue the board's position.
GameState ==
    /\ worker[1].pc = "play"
    /\ \E fresh \in BOOLEAN :
          IF fresh
          THEN /\ Len(srv_moves) < MaxMoves
               /\ ~IsGameOver(srv_moves)
               /\ \E m \in Moves : srv_moves' = Append(srv_moves, m)
          ELSE /\ Len(board) <= MaxMoves
               /\ srv_moves' = srv_moves
    /\ LET moves == srv_moves'
           g     == [game EXCEPT !.moves = moves]
           legal == moves # <<>> /\ board = Front(moves)
       IN  \E push_ok \in IF legal THEN {TRUE} ELSE BOOLEAN :
           LET pushed == moves # <<>> /\ push_ok
               b      == IF pushed THEN update_board(board, Last(moves)) ELSE board
           IN  \E req \in IF ~pushed THEN {NoRequest("Other")}     \* IndexError, or push raised
                          ELSE IF ~IsGameOver(b) /\ is_engine_move(g, moves)
                               THEN {MoveRequest(eng, mk) : eng \in EngineResults,
                                                            mk \in MoveResults}
                               ELSE {NoRequest("none")} :
                  /\ game' = g
                  /\ board' = b
                  /\ last' = [type |-> "gameState", moves |-> moves, pushed |-> pushed,
                              over |-> IsGameOver(b), req |-> req]
                  /\ abort_due' = IF req.submit = 1 /\ req.exc = "none"
                                  THEN abort_in(abort_due) ELSE abort_due   \* line 158
                  /\ aborts' = 0
                  /\ GameGoesOn(req)
    /\ UNCHANGED <<terminated, max_games, sort_by, challenge_queue, busy_processes,
                   queued_processes, disp, calls, control_stream, nchal, attempts>>

\* line 143: the stream ends (exc "none") or its iteration raises a connection error
GameStreamStops ==
    /\ worker[1].pc = "play"
    /\ \E exc \in {"none", "Conn"}, stop_ok \in BOOLEAN, in_time \in BOOLEAN :
          /\ GameExit(exc, "over", stop_ok, in_time)
          /\ last' = [type |-> "end", moves |-> game.moves, pushed |-> FALSE,
                      over |-> IsGameOver(board), req |-> NoRequest(exc)]
    /\ UNCHANGED <<terminated, max_games, sort_by, challenge_queue, busy_processes,
                   queued_processes, disp, calls, control_stream, nchal,
                   game, board, srv_moves, attempts, abort_due, aborts>>

\* lines 159-162: a blank line of the game stream
GamePing ==
    /\ worker[1].pc = "play"
    /\ LET due == should_abort_now(abort_due) IN
       /\ due => aborts < MaxAborts
       /\ \E r \in IF due THEN AbortResults ELSE {"ok"} :
             /\ aborts' = IF due THEN aborts + 1 ELSE aborts
             /\ last' = [type |-> "ping", moves |-> game.moves, pushed |-> FALSE,
                         over |-> IsGameOver(board),
                         req |-> NoRequest(IF r = "ok" THEN "none" ELSE r),
                         due |-> abort_due, before |-> aborts,
                         abort |-> IF due THEN 1 ELSE 0]
             /\ GameGoesOn(NoRequest(IF r = "ok" THEN "none" ELSE r))
    /\ UNCHANGED <<terminated, max_games, sort_by, challenge_queue, busy_processes,
                   queued_processes, disp, calls, control_stream, nchal,
                   game, board, srv_moves, attempts, abort_due>>

\* lines 146-147: a chatLine line; conversation.react returns or raises
GameChat ==
    /\ worker[1].pc = "play"
    /\ \E r \in {"none", "Other"} :
          /\ last' = [type |-> "chatLine", moves |-> game.moves, pushed |-> FALSE,
                      over |-> IsGameOver(board), req |-> NoRequest(r)]
          /\ GameGoesOn(NoRequest(r))
    /\ UNCHANGED <<terminated, max_games, sort_by, challenge_queue, busy_processes,
                   queued_processes, disp, calls, control_stream, nchal,
                   game, board, srv_moves, attempts, abort_due, aborts>>

\* the clock passes the auto-abort deadline of the game
DeadlinePasses ==
    /\ worker[1].pc = "play"
    /\ ~abort_due
    /\ abort_due' = TRUE
    /\ UNCHANGED <<dvars, worker, game, board, srv_moves, last, sent, attempts,
                   errs, aborts>>

\* a move is made on the server while the task is between two attempts
ServerMove ==
    /\ worker[1].pc = "open"
    /\ Len(srv_moves) < MaxMoves
    /\ ~IsGameOver(srv_moves)
    /\ \E m \in Moves : srv_moves' = Append(srv_moves, m)
    /\ UNCHANGED <<dvars, worker, game, board, last, sent, attempts, errs,
                   abort_due, aborts>>

\* the Dispatcher has handled a gameStart event and submitted the task
GameInit ==
    /\ terminated = FALSE
    /\ max_games \in Concurrencies
    /\ sort_by \in SortPolicies
    /\ challenge_queue = <<>>
    /\ control_queue = <<>>
    /\ busy_processes = 1
    /\ queued_processes = 0
    /\ disp = "top"
    /\ calls = <<>>
    /\ control_stream = [pc |-> "read", tries |-> 0]
    /\ worker = [w \in 1..MaxWorkers |->
                    IF w = 1 THEN [IdleWorker EXCEPT !.pc = "open"] ELSE IdleWorker]
    /\ nchal = 0
    /\ game \in [is_white : BOOLEAN, white_starts : BOOLEAN, moves : {<<>>}]
    /\ board = <<>>
    /\ srv_moves = <<>>
    /\ last = NoLast
    /\ sent = 0
    /\ attempts = 0
    /\ errs = "none"
    /\ abort_due = FALSE
    /\ aborts = 0

GameNext == \/ GameOpen
            \/ GameState
            \/ GamePing
            \/ GameChat
            \/ DeadlinePasses
            \/ GameStreamStops
            \/ ServerMove
            \/ LoopTest
            \/ HandleLocalGameDone

GameSpec == GameInit /\ [][GameNext]_vars

\* ================================================================ claims
BetweenEvents == disp \in {"top", "get"}

\* C1: after every drain pass, for any sequence of control events,
\* queued_processes + busy_processes <= max_games.
C1_AdmissionCeiling ==
    BetweenEvents => queued_processes + busy_processes <= max_games

\* C5: the Challenge Queue never holds two entries with the same challenge
\* identifier, whatever challenge events arrive.
C5_NoDuplicateIds ==
    \A i, j \in 1..Len(challenge_queue) :
        i # j => challenge_queue[i].id # challenge_queue[j].id

\* C7: with sort_by "best" the Challenge Queue is ordered by non-increasing
\* score after every insertion and every drain pass, and entries of equal score
\* stand in the order of their insertion.
C7_BestFirstStable ==
    sort_by = "best" =>
        \A i, j \in 1..Len(challenge_queue) :
            i < j => \/ challenge_queue[i].score > challenge_queue[j].score
                     \/ /\ challenge_queue[i].score = challenge_queue[j].score
                        /\ challenge_queue[i].n < challenge_queue[j].n

\* C7 witness: the sort has moved a later, better challenge to the front
C7_Witness ==
    /\ sort_by = "best"
    /\ Len(challenge_queue) >= 2
    /\ challenge_queue[1].score > challenge_queue[2].score
    /\ challenge_queue[1].n > challenge_queue[2].n

\* the accept calls of one handler, and the results start() survives
Accepts(cs) == SelectSeq(cs, LAMBDA c : c.op = "accept")
Benign      == {"ok", "HTTP404"}

\* one step of the Dispatcher over an event, as C9 wants it
C9_DrainStep ==
    LET ev     == Head(control_queue)
        accs   == Accepts(calls')
        queued == IF ev.type = "gameStart" /\ queued_processes > 0
                  THEN queued_processes - 1 ELSE queued_processes
        length == Len(challenge_queue)
                    + (IF ev.type = "challenge" /\ ev.challenge.supported THEN 1 ELSE 0)
        declined == \E i \in 1..Len(calls') :
                       calls'[i].op = "decline" /\ calls'[i].res \notin Benign
    IN  (disp = "get" /\ disp' \in {"top", "raised"}) =>
          /\ Len(challenge_queue') = length - Len(accs)
          /\ queued_processes' = queued + Count(accs, LAMBDA c : c.res = "ok")
          /\ \A i \in 1..Len(accs) :
                /\ accs[i].res = "HTTP404" =>
                      \/ i < Len(accs)
                      \/ /\ disp' = "top"
                         /\ \/ challenge_queue' = <<>>
                            \/ queued_processes' + busy_processes' >= max_games
                /\ accs[i].res \notin Benign => i = Len(accs) /\ disp' = "raised"
          /\ disp' = "raised" =>
                declined \/ (accs # <<>> /\ Last(accs).res \notin Benign)

\* C9: in a drain pass every accept call removes one entry; a 404 leaves
\* queued_processes as it is and the pass goes on with the next entry, the
\* Dispatcher still running; any other HTTP failure ends the pass and start().
C9_AcceptFailures == [][C9_DrainStep]_vars

\* C9 witness: a pass met a missing challenge and then accepted the next entry
C9_Witness ==
    /\ disp = "top"
    /\ \E i \in 1..Len(calls) :
          /\ calls[i].op = "accept" /\ calls[i].res = "HTTP404"
          /\ i < Len(calls) /\ calls[i + 1] = [op |-> "accept", res |-> "ok"]

\* the slot of a Dispatcher with capacity 1 is freed while two challenges wait
SlotFreed ==
    /\ Receives("local_game_done")
    /\ max_games = 1
    /\ queued_processes + busy_processes = 1
    /\ Len(challenge_queue) = 2

\* the entries of the Challenge Queue, by arrival number
Entries(q) == {q[i].n : i \in 1..Len(q)}

\* one step of the Dispatcher over an event, as the amended C13 wants it
C13_Step ==
    LET accs == Accepts(calls')
        oks(i) == Cardinality({j \in i..Len(accs) : accs[j].res = "ok"})
    IN  (disp = "get" /\ disp' \in {"top", "raised"}) =>
          /\ \A i \in 1..Len(accs) :
                (queued_processes' - oks(i)) + busy_processes' < max_games
          /\ SlotFreed =>
                /\ accs # <<>> /\ oks(1) <= 1
                /\ accs[1].res = "ok" =>
                      Len(accs) = 1 /\ challenge_queue' = Tail(challenge_queue)
                /\ Len(accs) = 2 => accs[1].res = "HTTP404"
          /\ (queued_processes + busy_processes >= max_games
                 /\ ~Receives("local_game_done")) =>
                Entries(challenge_queue) \subseteq Entries(challenge_queue')

\* C13 (as amended): every accept_challenge call is made with
\* queued_processes + busy_processes < max_games; with capacity 1 and two
\* challenges waiting, the drain after the slot is freed accepts at most one of
\* them: the head when its call succeeds, and the second only when the head's
\* call met a 404; an entry that waits at full capacity stays until a
\* local_game_done event is handled.
C13_AdmitsBelowCeiling == [][C13_Step]_vars

\* C13 witness: at capacity 1 the drain accepted one challenge and left one
C13_Witness ==
    /\ disp = "top" /\ max_games = 1
    /\ calls = <<[op |-> "accept", res |-> "ok"]>>
    /\ Len(challenge_queue) = 1
    /\ queued_processes = 1 /\ busy_processes = 0

\* C13 as claimed: with capacity 1 and two challenges waiting, the drain after
\* the slot is freed takes the head alone off the queue.
C13_AsClaimed ==
    [][(SlotFreed /\ disp' \in {"top", "raised"})
          => challenge_queue' = Tail(challenge_queue)]_vars

\* one step of the Dispatcher, as C14 wants it
C14_Step ==
    LET accs    == Accepts(calls')
        oks     == Cardinality({j \in 1..Len(accs) : accs[j].res = "ok"})
        started == {w \in 1..MaxWorkers : worker[w].pc # "open" /\ worker'[w].pc = "open"}
    IN  /\ queued_processes' >= 0
        /\ (Receives("gameStart") /\ control_queue' = Tail(control_queue)) =>
              /\ busy_processes' = busy_processes + 1
              /\ Cardinality(started) = 1
              /\ queued_processes' =
                    (IF queued_processes > 0 THEN queued_processes - 1 ELSE 0) + oks
              /\ disp' = "raised" => (accs # <<>> /\ Last(accs).res \notin Benign)

\* C14: a gameStart event lowers queued_processes only when it is positive, so
\* queued_processes is never negative; with queued_processes at zero the event
\* is not fatal: a Game Worker is submitted and busy_processes grows by one.
C14_QueuedNeverNegative == [][C14_Step]_vars

\* C14 witness: a game has started although no challenge was ever accepted
C14_Witness ==
    /\ disp = "top" /\ nchal = 0
    /\ queued_processes = 0 /\ busy_processes = 1
    /\ \E w \in 1..MaxWorkers : worker[w].pc = "open"

\* ------------------------------------------------------ claims on play_game
Exited(w) == worker[w].pc \in {"returned", "raised"}

\* C2: a Game Worker enqueues a local_game_done event on every exit path: once
\* play_game has returned or raised for good, it has reported.
C2_ReportOnEveryExit == Exited(1) => sent >= 1

\* C3: a Game Worker that met connection errors only, was retried, and whose
\* decorator gave up on the last of them, has enqueued exactly one
\* local_game_done event over all its attempts.
C3_OneReportAfterRetries ==
    (worker[1].pc = "raised" /\ errs = "conn" /\ attempts >= 2) => sent = 1

\* the side to move by the parity of the move count is the engine's colour
EnginesTurn(g, moves) ==
    LET white_to_move == IF g.white_starts THEN Len(moves) % 2 = 0
                                           ELSE Len(moves) % 2 = 1
    IN  g.is_white <=> white_to_move

\* C10 (as amended): a gameState update makes exactly one engine.move request
\* when its last move was pushed on the board, the game is not over after it and
\* the move count makes it this engine's turn; exactly one make_move follows
\* when engine.move returned a move; in every other case the update makes neither.
C10_MoveRequests ==
    last.type = "gameState" =>
        IF last.pushed /\ ~last.over /\ EnginesTurn(game, last.moves)
        THEN /\ last.req.engine = 1
             /\ last.req.submit = (IF last.req.engine_ok THEN 1 ELSE 0)
        ELSE last.req.engine = 0 /\ last.req.submit = 0

\* C10 witness: the engine moved on an update that repeated the move list
C10_Witness ==
    /\ last.type = "gameState"
    /\ Len(board) > Len(last.moves)
    /\ last.req.engine = 1 /\ last.req.submit = 1
    /\ worker[1].pc = "play"

\* C10 as claimed: every update handled to its end makes one engine.move request
\* and one make_move when the move count makes it this engine's turn, none else.
C10_AsClaimed ==
    (last.type = "gameState" /\ last.req.exc = "none") =>
        IF EnginesTurn(game, last.moves)
        THEN last.req.engine = 1 /\ last.req.submit = 1
        ELSE last.req.engine = 0 /\ last.req.submit = 0

\* C11: a ping after the abort deadline, with no gameState line since the
\* deadline was set, issues one abort call; a further ping with no gameState
\* line in between issues none.
C11_OneAbortPerWindow ==
    last.type = "ping" =>
        last.abort = (IF last.due /\ last.before = 0 THEN 1 ELSE 0)

\* C12: while the Game Worker plays, after the snapshot and any sequence of
\* gameState updates, its Board is the Board that replaying the full move list
\* of the latest update from the initial position gives.
C12_BoardIsReplay ==
    worker[1].pc = "play" => board = setup_board(game.moves)

\* ------------------------------------------------- claims on the system
\* one step of the system, as C4 wants it
C4_BusyStep ==
    /\ (Receives("local_game_done") /\ control_queue' = Tail(control_queue))
          => busy_processes' = busy_processes - 1
    /\ busy_processes' >= 0

\* C4: every local_game_done event the Dispatcher consumes lowers busy_processes
\* by one, and busy_processes is never negative, the events coming from the
\* Game Workers the Dispatcher launched.
C4_BusyNeverNegative == [][C4_BusyStep]_vars

\* the challenge that arrived n-th is in the Challenge Queue; the Dispatcher
\* is in its loop and the event stream that feeds it is alive
InQueue(n) == \E i \in 1..Len(challenge_queue) : challenge_queue[i].n = n
DispatcherRuns == disp \in {"top", "get"} /\ control_stream.pc \in {"open", "read"}

\* C6: every challenge in the Challenge Queue leaves it in the end, while the
\* Dispatcher keeps running.
C6_EveryEntryLeaves ==
    \A n \in 1..MaxChallenges :
        InQueue(n) ~> (~InQueue(n) \/ ~DispatcherRuns)

\* the terminated events in a queue, and one step of the system as C8 wants it
Terminations(q) == Count(q, LAMBDA ev : ev.type = "terminated")

C8_StreamStep ==
    LET stops == /\ control_stream.pc \in {"open", "read"}
                 /\ control_stream'.pc \in {"returned", "raised"}
    IN  /\ stops => control_queue' = Append(control_queue, Event("terminated"))
        /\ Terminations(control_queue') > Terminations(control_queue) => stops

C15_TerminatedAfterRetries ==
    [][Terminations(control_queue') > Terminations(control_queue)
          => control_stream'.pc = "raised"]_vars

\* C16: a transport error met while the Game Worker reads its game stream is
\* passed to the backoff decorator, which reopens the session or gives up: the
\* worker does not end by a plain return; an HTTP error with a status below 500
\* ends the worker, and no further attempt is made (engine.stop() returning).
C16_StreamErrorsRetried ==
    /\ (last.type = "end" /\ last.req.exc \in ConnErrors)
          => worker[1].pc \in {"open", "raised"}
    /\ (last.type \in {"gameState", "ping"} /\ last.req.exc = "HTTP4xx" /\ sent >= 1)
          => worker[1].pc \in {"returned", "raised"}

\* a step of the Game Worker w, one step of the system as C17 wants it
WorkerSteps(w) == worker[w].pc \in {"open", "play"} /\ worker'[w] # worker[w]

C17_Step ==
    \A w \in 1..MaxWorkers :
        WorkerSteps(w) =>
            /\ disp' = disp
            /\ \A v \in 1..MaxWorkers \ {w} : worker'[v] = worker[v]
            /\ UNCHANGED <<terminated, challenge_queue, busy_processes,
                           queued_processes, control_stream>>
            /\ \/ control_queue' = control_queue
               \/ control_queue' = Append(control_queue, Event("local_game_done"))

\* C17: whatever a Game Worker does, a failure included, it neither ends the
\* Dispatcher loop nor stops or alters another Game Worker; what it leaves for
\* the Dispatcher is its local_game_done event and nothing else.
C17_FailuresIsolated == [][C17_Step]_vars

\* C17 witness: one Game Worker has failed for good while another one plays
\* and the Dispatcher is in its loop
C17_Witness ==
    /\ disp \in {"top", "get"}
    /\ \E w, v \in 1..MaxWorkers : worker[w].pc = "raised" /\ worker[v].pc = "play"

\* C18: once start() has left its loop, by a terminated event, by the
\* cancellation flag or by an error of accept_challenge or decline_challenge, the
\* control stream process runs no more: it has been terminated and joined.
C18_StreamStoppedWithDispatcher ==
    disp \in {"stopped", "raised"} => control_stream.pc \notin {"open", "read"}

\* C19: once play_game has run its finally clause to the end (the engine is
\* stopped, local_game_done is enqueued), the Game Worker is active no more: it
\* neither opens the game stream again nor handles another stream message.
C19_NoReentryAfterFinally ==
    sent >= 1 => worker[1].pc \notin {"open", "play"}

\* one step of the system, as C20 wants it
C20_Step ==
    /\ (terminated' /\ ~terminated) =>
          UNCHANGED <<disp, control_queue, challenge_queue, busy_processes,
                      queued_processes, calls, worker, control_stream>>
    /\ (terminated /\ disp = "top") => disp' \in {"top", "stopped"}
    /\ (terminated /\ disp = "get") => disp' \in {"get", "top", "stopped", "raised"}
    /\ (terminated /\ disp # "stopped" /\ disp' = "stopped") => worker' = worker

====
